---- MODULE Spec2Model ----
(***************************************************************************)
(* Verification model of the finance_v2 pipeline:                          *)
(*   src/src/main.py        run_full_pipeline (orchestrator, parser, merge) *)
(*   src/src/api_genai.py   classify_payments_batch (classification client) *)
(*   src/src/get_data_v3.py process_all_files (source normalization)        *)
(*                                                                         *)
(* Three specifications share the module:                                  *)
(*   Spec             the orchestrator run (main.py)                       *)
(*   SpecClient       one call of classify_payments_batch against a        *)
(*                    scripted service                                     *)
(*   SpecNorm         process_all_files over small raw tables              *)
(***************************************************************************)
EXTENDS Integers, Sequences, FiniteSets, TLC

\* ---------------------------------------------------------------------
\* Bounds of the model
\* ---------------------------------------------------------------------
\* largest number of normalized transactions handed to the orchestrator
MaxTx == 41
\* longest scripted sequence of service outcomes offered to one classify call
MaxScript == 4
\* largest number of raw rows over all source files of one normalization run
MaxRawRows == 2
\* longest amount text given to an amount cleaner
MaxAmountLen == 4
\* largest number of columns absent from the header of a source file
MaxMissing == 1
\* largest number of batches that contribute a result frame
MaxFrames == 2

\* ---------------------------------------------------------------------
\* Program constants
\* ---------------------------------------------------------------------
MAX_BATCH_SIZE == 20
\* RPM_DELAY_SECONDS = 1.05, in milliseconds
RPM_DELAY_MS == 1050
\* time.sleep(2.0) after every classify call, in milliseconds
POST_CALL_SLEEP_MS == 2000

VARIABLES
    \* ---- orchestrator (main.py run_full_pipeline) ----
    pc,                  \* position in run_full_pipeline
    GEMINI_CLIENT,       \* TRUE iff the client object was created
    df_original,         \* sequence of transaction ids (empty = None / empty frame)
    data_for_ai,         \* serialized lines
    i,                   \* loop variable of the batch loop (0-based offset)
    result_json_string,  \* text returned by the last classify call
    df_ai_results_list,  \* list of per-batch result frames (non-empty ones only)
    df_ai_final,         \* concatenated result frame
    df_final_merged,     \* merged frame
    warned,              \* the count-mismatch warning was printed
    outputFile,          \* rows of the final TSV, <<>> while not written
    fileWritten,         \* to_csv of the final file was executed
    sleeps,              \* log of time.sleep durations (ms), in order
    calls,               \* log: batch numbers classify was invoked for
    parsed_log,          \* log: per processed batch, the decoded result list
    sent,                \* log: the batch handed to each classify call
    \* ---- classification client (api_genai.py) ----
    script,              \* outcomes the service gives to successive attempts
    ret,                 \* what the last classify call returned
    cpc,                 \* position of the client-only specification
    \* ---- normalization (get_data_v3.py) ----
    npc,                 \* position in process_all_files
    src_idx,             \* number of source blocks already executed
    norm_stats,          \* log: rows read, rows whose timestamp failed, outcome per source
    list_of_dfs,         \* frames appended by the source blocks
    df_combined,         \* result of process_all_files
    final_df,            \* what run_data_integration_pipeline returned
    \* ---- amount cleaning and one source block (get_data*.py) ----
    apc,                 \* position of the cleaning specification
    clean_in,            \* the cleaner version and the cell it was given
    clean_out,           \* what the cleaner gave back
    adapt_in,            \* the source, its absent columns and its amount cells
    adapt_out,           \* what the source block produced
    \* ---- columns of the final file (main.py) ----
    hpc,                 \* position of the header specification
    batch_cols,          \* columns of the frames in df_ai_results_list
    header               \* header line of the written file

pipeVars == <<pc, GEMINI_CLIENT, df_original, data_for_ai, i, result_json_string,
              df_ai_results_list, df_ai_final, df_final_merged, warned,
              outputFile, fileWritten, sleeps, calls, parsed_log, sent>>
clientVars == <<script, ret, cpc>>
normVars == <<npc, src_idx, norm_stats, list_of_dfs, df_combined, final_df>>
cleanVars == <<apc, clean_in, clean_out, adapt_in, adapt_out>>
headerVars == <<hpc, batch_cols, header>>
vars == <<pipeVars, clientVars, normVars, cleanVars, headerVars>>

\* ---------------------------------------------------------------------
\* Generic helpers
\* ---------------------------------------------------------------------
Min(a, b) == IF a <= b THEN a ELSE b
Max(a, b) == IF a >= b THEN a ELSE b
SetMin(S) == CHOOSE x \in S : \A y \in S : x <= y
SetMax(S) == CHOOSE x \in S : \A y \in S : x >= y

\* ---------------------------------------------------------------------
\* Response texts: sequences of tokens
\* ---------------------------------------------------------------------
\* a token: '[' , ']' , ',' , a run of prose, or one JSON object.  The
\* object carries the batch it answers and its position in the answer.
Tok(k, b, j) == [k |-> k, b |-> b, j |-> j]
LB == Tok("[", 0, 0)
RB == Tok("]", 0, 0)
COMMA == Tok(",", 0, 0)
PROSE == Tok("p", 0, 0)
Obj(b, j) == Tok("o", b, j)

\* response.text is either None or a string
Text(chars) == [isNone |-> FALSE, chars |-> chars]
NoneText == [isNone |-> TRUE, chars |-> <<>>]

\* the text of a JSON array of r objects answering batch b
ArrayChars(b, r) ==
    IF r = 0 THEN <<LB, RB>>
    ELSE [k \in 1..(2 * r + 1) |->
            IF k = 1 THEN LB
            ELSE IF k = 2 * r + 1 THEN RB
            ELSE IF k % 2 = 0 THEN Obj(b, k \div 2)
            ELSE COMMA]

\* json.dumps([])
json_dumps_empty == Text(<<LB, RB>>)

\* ---------------------------------------------------------------------
\* The external classification service
\* ---------------------------------------------------------------------
\* numbers of objects the service may put into the answer to n lines
Counts(n) == {r \in {0, 1, n - 2, n - 1, n, n + 1} : r >= 0}

\* texts the service may answer batch b of n lines with
ServiceTexts(b, n) ==
    {Text(ArrayChars(b, r)) : r \in Counts(n)}
    \cup {Text(<<PROSE>> \o ArrayChars(b, r) \o <<PROSE>>) : r \in Counts(n)}
    \cup {Text(<<>>), Text(<<PROSE>>),
          Text(<<LB, Obj(b, 1)>>),
          Text(<<RB, PROSE, LB>>),
          Text(<<RB, PROSE>> \o ArrayChars(b, 1)),
          Text(<<LB, Obj(b, 1), Obj(b, 2), RB>>),
          Text(ArrayChars(b, 1) \o <<PROSE>> \o ArrayChars(b, 1)),
          Text(ArrayChars(b, 1) \o <<PROSE, RB>>),
          NoneText}

Outcome(kind, text) == [kind |-> kind, text |-> text]

\* what one generate_content attempt for batch b of n lines may do
ServiceOutcomes(b, n) ==
    {Outcome("unavailable", NoneText), Outcome("fatal", NoneText)}
    \cup {Outcome("ok", t) : t \in ServiceTexts(b, n)}

\* ---------------------------------------------------------------------
\* api_genai.py: classify_payments_batch
\* ---------------------------------------------------------------------
\* variant: an error that is not transient-unavailable is re-raised
classify_payments_batch_reraise(client, scr) ==
    IF ~client
    THEN [text |-> json_dumps_empty, attempts |-> 0, backoffs |-> 0,
          sleeps |-> <<>>, raised |-> FALSE]
    ELSE IF scr[1].kind = "ok"
    THEN [text |-> scr[1].text, attempts |-> 1, backoffs |-> 0,
          sleeps |-> <<RPM_DELAY_MS>>, raised |-> FALSE]
    ELSE [text |-> json_dumps_empty, attempts |-> 1, backoffs |-> 0,
          sleeps |-> <<>>, raised |-> (scr[1].kind = "fatal")]

\* variant: the inter-call delay sits in a finally clause
classify_payments_batch_sleep_always(client, scr) ==
    IF ~client
    THEN [text |-> json_dumps_empty, attempts |-> 0, backoffs |-> 0,
          sleeps |-> <<>>, raised |-> FALSE]
    ELSE IF scr[1].kind = "ok"
    THEN [text |-> scr[1].text, attempts |-> 1, backoffs |-> 0,
          sleeps |-> <<RPM_DELAY_MS>>, raised |-> FALSE]
    ELSE [text |-> json_dumps_empty, attempts |-> 1, backoffs |-> 0,
          sleeps |-> <<RPM_DELAY_MS>>, raised |-> FALSE]

\* script[k] is what the service does on the k-th generate_content attempt.
\* The function calls generate_content once, inside one try block.
classify_payments_batch(client, scr) ==
    IF ~client
    THEN [text |-> json_dumps_empty, attempts |-> 0, backoffs |-> 0,
          sleeps |-> <<>>, raised |-> FALSE]
    ELSE IF scr[1].kind = "ok"
    THEN [text |-> scr[1].text, attempts |-> 1, backoffs |-> 0,
          sleeps |-> <<RPM_DELAY_MS>>, raised |-> FALSE]
    ELSE [text |-> json_dumps_empty, attempts |-> 1, backoffs |-> 0,
          sleeps |-> <<>>, raised |-> FALSE]

NoRet == [text |-> NoneText, attempts |-> 0, backoffs |-> 0,
          sleeps |-> <<>>, raised |-> FALSE]

\* ---------------------------------------------------------------------
\* main.py: response parsing (lines 69-102)
\* ---------------------------------------------------------------------
NoMatch == [found |-> FALSE, first |-> 0, last |-> 0]

\* variant: the non-greedy pattern r'\[.*?\]', which stops at the first ']'
re_search_lazy(s) ==
    LET starts == {a \in 1..Len(s) :
                      s[a] = LB /\ \E z \in (a + 1)..Len(s) : s[z] = RB}
    IN IF starts = {} THEN NoMatch
       ELSE LET a == SetMin(starts)
                z == SetMin({y \in (a + 1)..Len(s) : s[y] = RB})
            IN [found |-> TRUE, first |-> a, last |-> z]

\* re.search(r'\[.*\]', s, re.DOTALL): the engine takes the leftmost '['
\* from which the rest of the pattern can match, and the greedy '.*' then
\* runs to the last ']' behind it.
re_search(s) ==
    LET starts == {a \in 1..Len(s) :
                      s[a] = LB /\ \E z \in (a + 1)..Len(s) : s[z] = RB}
    IN IF starts = {} THEN NoMatch
       ELSE LET a == SetMin(starts)
                z == SetMax({y \in (a + 1)..Len(s) : s[y] = RB})
            IN [found |-> TRUE, first |-> a, last |-> z]

\* match.group(0)
match_group(s, m) == SubSeq(s, m.first, m.last)

\* json.loads on a token text.  The texts of ServiceTexts never hold a
\* well-formed nested array, so a text decodes iff it is '[' ']' around
\* objects separated by commas.
json_decodable(s) ==
    /\ Len(s) >= 2
    /\ s[1] = LB
    /\ s[Len(s)] = RB
    /\ \/ Len(s) = 2
       \/ /\ Len(s) % 2 = 1
          /\ \A k \in 2..(Len(s) - 1) :
                IF k % 2 = 0 THEN s[k].k = "o" ELSE s[k] = COMMA

json_loads(s) == [k \in 1..((Len(s) - 1) \div 2) |-> s[2 * k]]

\* the try block of one loop iteration, up to the decoded list
parse_response(text) ==
    IF text.isNone
    THEN [branch |-> "exception", cleaned |-> <<>>, list |-> <<>>]
    ELSE LET m == re_search(text.chars)
         IN IF ~m.found
            THEN [branch |-> "no_match", cleaned |-> <<>>, list |-> <<>>]
            ELSE LET c == match_group(text.chars, m)
                 IN IF json_decodable(c)
                    THEN [branch |-> "ok", cleaned |-> c, list |-> json_loads(c)]
                    ELSE [branch |-> "decode_error", cleaned |-> c, list |-> <<>>]

\* variant: the emptiness test of line 89 is missing
append_batch_result_unguarded(lst, p) ==
    IF p.branch = "ok" THEN Append(lst, p.list) ELSE lst

\* lines 89-92: a non-empty batch frame is appended to the result list
append_batch_result(lst, p) ==
    IF p.branch = "ok" /\ p.list # <<>> THEN Append(lst, p.list) ELSE lst

\* ---------------------------------------------------------------------
\* main.py: merge (lines 114-132)
\* ---------------------------------------------------------------------
RECURSIVE pd_concat_rows_newest_first(_)
\* variant: the frames are concatenated newest first
pd_concat_rows_newest_first(frames) ==
    IF frames = <<>> THEN <<>>
    ELSE pd_concat_rows_newest_first(Tail(frames)) \o Head(frames)

RECURSIVE pd_concat_rows(_)
\* pd.concat(frames, ignore_index=True)
pd_concat_rows(frames) ==
    IF frames = <<>> THEN <<>>
    ELSE Head(frames) \o pd_concat_rows(Tail(frames))

NaN == 0
NaN_ai == Tok("NaN", 0, 0)

\* df_original['순번'] = index + 1, then pd.concat([df_original, ai], axis=1):
\* an outer join on the row index
pd_concat_cols(orig, ai) ==
    [k \in 1..Max(Len(orig), Len(ai)) |->
        [seq_no |-> IF k <= Len(orig) THEN k ELSE NaN,
         tx |-> IF k <= Len(orig) THEN orig[k] ELSE NaN,
         ai |-> IF k <= Len(ai) THEN ai[k] ELSE NaN_ai]]

\* df[FINAL_COLUMNS].to_csv(sep='\t', header=False, index=False).strip().split('\n')
\* to_csv writes one record per row and quotes a field that holds a line
\* break, keeping the break inside the quotes; split('\n') cuts the text at
\* every line break, so the row brk whose text field holds one break gives
\* two lines (part 1 and part 2).  brk = 0: no field holds a line break.
\* strip() takes the whitespace off both ends of the whole text: when the
\* first row starts with an empty field (lead: its 거래일시 is NaT) the
\* leading tab goes and line 1 is cut by that field; the text never ends
\* with an empty field, since the last column 출처 is always set.
to_csv_lines(df, brk, lead) ==
    [j \in 1..(Len(df) + (IF brk = 0 THEN 0 ELSE 1)) |->
        IF brk = 0 \/ j <= brk
        THEN [tx |-> df[j], part |-> 1, cut |-> (lead /\ j = 1)]
        ELSE IF j = brk + 1 THEN [tx |-> df[brk], part |-> 2, cut |-> FALSE]
        ELSE [tx |-> df[j - 1], part |-> 1, cut |-> FALSE]]

\* ---------------------------------------------------------------------
\* main.py: columns of the result frames and of the final file
\* ---------------------------------------------------------------------
\* Column names are romanized:
\*   seq_no 순번; tx_datetime 거래일시, usage_class 사용구분, description
\*   사용내역, counterparty 거래상대방, credit 입금액, debit 출금액, balance
\*   잔액, memo 메모, source 출처; input_text 인풋_문장, direction 거래_유형,
\*   primary_category 주요_카테고리, secondary_category 세부_카테고리,
\*   rationale 판단_사유
\* line 21
FINAL_COLUMNS ==
    <<"tx_datetime", "usage_class", "description", "counterparty", "credit",
      "debit", "balance", "memo", "source">>
\* line 23
AI_RESULT_COLUMNS ==
    <<"input_text", "direction", "primary_category", "secondary_category",
      "rationale">>

SeqRange(s) == {s[k] : k \in 1..Len(s)}

\* keys an object of a response may carry; "other" is any further key
ResponseKeys == SeqRange(AI_RESULT_COLUMNS) \cup {"other"}
\* pd.DataFrame(data_list).columns (line 79): the keys of the decoded
\* objects in the order of their first appearance
ResponseColumns ==
    UNION {{f \in [1..Cardinality(S) -> S] :
              \A p, q \in 1..Cardinality(S) : p # q => f[p] # f[q]} :
           S \in SUBSET ResponseKeys}

\* line 91: [col for col in AI_RESULT_COLUMNS if col in df_batch_result.columns]
select_columns(cols) ==
    SelectSeq(AI_RESULT_COLUMNS, LAMBDA c : c \in SeqRange(cols))

\* lines 89-92: a frame without columns is empty and is not appended
append_batch_columns(lst, cols) ==
    IF cols = <<>> THEN lst ELSE Append(lst, select_columns(cols))

RECURSIVE pd_concat_columns(_)
\* line 116, pd.concat(frames, ignore_index=True): the columns of the
\* result are the union of the frames' columns in the order of their
\* first appearance
pd_concat_columns(frames) ==
    IF frames = <<>> THEN <<>>
    ELSE LET rest == pd_concat_columns(SubSeq(frames, 1, Len(frames) - 1))
         IN rest \o SelectSeq(frames[Len(frames)],
                              LAMBDA c : c \notin SeqRange(rest))

\* lines 125 and 142-143: ['순번'] + FINAL_COLUMNS + AI_COLUMNS_ONLY
final_columns_order(ai_cols) ==
    <<"seq_no">> \o FINAL_COLUMNS
        \o SelectSeq(ai_cols, LAMBDA c : c # "input_text")

\* ---------------------------------------------------------------------
\* get_data_v3.py: process_all_files
\* ---------------------------------------------------------------------
\* FILE_MAP, in the order of the six try blocks
Sources == <<"kakao", "kbank", "toss", "hcard", "nh", "shinhan">>

\* the notation a raw date(-time) cell is written in:
\*   dot    2024.01.02 10:00:00   (date only for the card file)
\*   dash   2024-01-02 + 10:00:00
\*   slash  2024/01/02 10:00:00
\*   kr     2024년01월02일
Styles == {"dot", "dash", "slash", "kr"}
\* the instants a cell may denote
Stamps == {1, 2}
RawCell(style, t) == [style |-> style, t |-> t]
RawCells == {RawCell(st, t) : st \in Styles, t \in Stamps}

NaT == 0

\* the per-source timestamp expression (lines 90, 120, 149, 180-182,
\* 212-213, 245-246): pd.to_datetime(..., format=..., errors='coerce')
\* gives NaT for a cell that does not match the format.
\*  - kakao, kbank, toss: format '%Y.%m.%d %H:%M:%S' on the raw cell
\*  - hcard: 년/월/일 replaced by '.', trailing '.' stripped, ' 00:00:00' added
\*  - nh: every run of '/' or whitespace replaced by '.', which also removes
\*        the blank between date and time that the format requires
\*  - shinhan: date + ' ' + time under '%Y-%m-%d %H:%M:%S'
parse_timestamp(source, cell) ==
    IF source \in {"kakao", "kbank", "toss"}
    THEN (IF cell.style = "dot" THEN cell.t ELSE NaT)
    ELSE IF source = "hcard"
    THEN (IF cell.style \in {"kr", "dot"} THEN cell.t ELSE NaT)
    ELSE IF source = "nh"
    THEN NaT
    ELSE (IF cell.style = "dash" THEN cell.t ELSE NaT)

\* what a source file may hold when load_file reads it
RawTable(status, rows) == [status |-> status, rows |-> rows]

\* one try block: the standard frame of a readable table keeps every row
standard_frame(source, table) ==
    [k \in 1..Len(table.rows) |->
        [src |-> source, row |-> k, raw |-> table.rows[k],
         ts |-> parse_timestamp(source, table.rows[k])]]

CountFailed(source, rows) ==
    Cardinality({k \in 1..Len(rows) : parse_timestamp(source, rows[k]) = NaT})

RowsUpTo(n) == UNION {[1..m -> RawCells] : m \in 0..n}

\* ---------------------------------------------------------------------
\* get_data_v3.py: run_data_integration_pipeline
\* ---------------------------------------------------------------------
\* the value None (also the value of final_df before the function returned)
NoFrame == [isNone |-> TRUE, rows |-> <<>>]

\* line 303: final_df.sort_values(by='거래일시', ascending=False)
\*                   .reset_index(drop=True)
\* kind is left at its default 'quicksort', which does not promise to keep
\* the order of equal keys: every order of the rows that is descending in
\* the timestamp is an outcome.  na_position is left at 'last': the NaT rows
\* follow all others, in their collection order.
sort_values(df) ==
    LET n == Len(df)
        Orders == {f \in [1..n -> 1..n] :
                     /\ \A p, q \in 1..n : p # q => f[p] # f[q]
                     /\ \A p, q \in 1..n :
                           p < q =>
                             IF df[f[p]].ts = NaT
                             THEN df[f[q]].ts = NaT /\ f[p] < f[q]
                             ELSE df[f[q]].ts = NaT \/ df[f[p]].ts >= df[f[q]].ts}
    IN {[p \in 1..n |-> df[f[p]]] : f \in Orders}

\* lines 297-299 and the return: None for an empty frame
integration_result_keep_empty(df, sorted) == [isNone |-> FALSE, rows |-> sorted]

integration_result(df, sorted) ==
    IF df = <<>> THEN NoFrame ELSE [isNone |-> FALSE, rows |-> sorted]

\* ---------------------------------------------------------------------
\* clean_amount of get_data.py, get_data_v2.py and get_data_v3.py
\* ---------------------------------------------------------------------
\* A text is a sequence of characters; "won" stands for the currency
\* character of the source files, " " for any whitespace and "$" for any
\* character that is neither a digit, a point, a sign, a comma, the
\* currency character nor whitespace.
DigitChars == {"0", "1", "2", "3", "4", "5"}
DigitVal(c) ==
    CASE c = "0" -> 0 [] c = "1" -> 1 [] c = "2" -> 2
      [] c = "3" -> 3 [] c = "4" -> 4 [] c = "5" -> 5
AmountChars == {"0", "5", ".", "-", "+", ",", "won", " ", "$"}
AmountTexts ==
    UNION {[1..m -> AmountChars] : m \in 0..MaxAmountLen}
        \cup {<<"1", ",", "2", "3", "4", "won">>}

\* str.replace(pattern, '', regex=True) for a character class / its negation
Remove(s, chars) == SelectSeq(s, LAMBDA c : c \notin chars)
Keep(s, chars) == SelectSeq(s, LAMBDA c : c \in chars)

\* a number: sign, integer part, fraction digits without trailing zeros
Zero == [neg |-> FALSE, int |-> 0, frac |-> <<>>]
\* results of a cleaner: a number, the null value (NaN / <NA>), an exception
Value(v) == [raised |-> FALSE, null |-> FALSE, num |-> v]
Null == [raised |-> FALSE, null |-> TRUE, num |-> Zero]
Raised == [raised |-> TRUE, null |-> FALSE, num |-> Zero]

\* the texts float() and pd.to_numeric read as a decimal number: an optional
\* sign, then digits with at most one point and at least one digit
Unsigned(t) == IF t # <<>> /\ t[1] \in {"-", "+"} THEN Tail(t) ELSE t
IsNumber(t) ==
    LET u == Unsigned(t)
    IN /\ \A k \in 1..Len(u) : u[k] \in DigitChars \cup {"."}
       /\ Cardinality({k \in 1..Len(u) : u[k] = "."}) <= 1
       /\ \E k \in 1..Len(u) : u[k] \in DigitChars

RECURSIVE IntVal(_)
IntVal(d) ==
    IF d = <<>> THEN 0
    ELSE IntVal(SubSeq(d, 1, Len(d) - 1)) * 10 + DigitVal(d[Len(d)])

RECURSIVE TrimZeros(_)
TrimZeros(d) ==
    IF d # <<>> /\ d[Len(d)] = "0" THEN TrimZeros(SubSeq(d, 1, Len(d) - 1)) ELSE d

\* the number a text with IsNumber denotes
parse_number(t) ==
    LET u == Unsigned(t)
        points == {k \in 1..Len(u) : u[k] = "."}
        pt == IF points = {} THEN Len(u) + 1 ELSE CHOOSE k \in points : TRUE
        ip == IntVal(SubSeq(u, 1, pt - 1))
        fp == TrimZeros(SubSeq(u, pt + 1, Len(u)))
    IN [neg |-> t[1] = "-" /\ (ip # 0 \/ fp # <<>>), int |-> ip, frac |-> fp]

\* pd.to_numeric(..., errors='coerce'): NaN for '' and for any other text
\* that is not a number
to_numeric(t) == IF IsNumber(t) THEN Value(parse_number(t)) ELSE Null
\* .astype(float) on texts: ValueError for a text that is not a number
astype_float(t) == IF IsNumber(t) THEN Value(parse_number(t)) ELSE Raised
\* .astype('Int64'): TypeError for a value with a fraction, <NA> for NaN
astype_Int64(r) ==
    IF r.raised \/ r.null THEN r
    ELSE IF r.num.frac # <<>> THEN Raised ELSE r

\* a cell of an amount column: text (object dtype) or already numeric
TextCell(t) == [kind |-> "text", chars |-> t, val |-> Null]
NumCell(v) == [kind |-> "num", chars |-> <<>>, val |-> v]

\* get_data.py lines 37-44
get_data_clean_amount(cell) ==
    LET cleaned == Keep(cell.chars, DigitChars \cup {".", "-", "+"})
    IN astype_Int64(IF cleaned = <<>> THEN Value(Zero) ELSE astype_float(cleaned))

\* get_data_v2.py lines 45-51
get_data_v2_clean_amount(cell) ==
    astype_Int64(to_numeric(Keep(cell.chars, DigitChars \cup {".", "-"})))

\* get_data_v3.py lines 39-46: a column that is not of object/string dtype
\* is returned as it is
clean_amount(cell) ==
    IF cell.kind = "text"
    THEN to_numeric(Remove(cell.chars, {",", "won", " "}))
    ELSE cell.val

CleanerVersions == {"get_data", "get_data_v2", "get_data_v3"}
run_cleaner(ver, cell) ==
    CASE ver = "get_data" -> get_data_clean_amount(cell)
      [] ver = "get_data_v2" -> get_data_v2_clean_amount(cell)
      [] ver = "get_data_v3" -> clean_amount(cell)

NoCleanIn == [ver |-> "none", cell |-> TextCell(<<>>)]

\* ---------------------------------------------------------------------
\* get_data_v3.py: one source block of process_all_files on a one-row table
\* ---------------------------------------------------------------------
\* Column names are romanized:
\*   amount 거래금액/거래 금액/이용금액, deposit 입금금액/입금, withdrawal
\*   출금금액/출금, datetime 거래일시/거래 일시, date 거래일자, time 거래시간,
\*   use_date 이용일, gubun 구분, tx_class 거래구분, tx_type 거래 유형,
\*   content 내용/거래내용, summary 적요내용/적요, peer_bank 상대 은행,
\*   peer_holder 상대 예금주명, peer_account 상대 계좌번호, institution
\*   거래 기관, account 계좌번호, card_class 카드구분, card_name 카드명,
\*   merchant 가맹점명, business_no 사업자번호, approval_no 승인번호,
\*   installment 할부 개월, record 거래기록사항, branch 거래점,
\*   balance 잔액/거래 후 잔액/거래후잔액, memo 메모/거래메모
\* df[c]: a read that raises KeyError when column c is absent
Index(c) == [op |-> "index", cols |-> {c}]
\* combine_and_clean_str(df, cs): a read through lines 48-64
Combine(cs) == [op |-> "combine", cols |-> cs]

\* the column reads of each block, in the order of the code
SourceSteps(source) ==
    CASE source = "kakao" ->
            <<Index("amount"), Index("datetime"), Index("gubun"), Index("tx_class"),
              Index("content"), Index("balance"), Index("memo")>>
      [] source = "kbank" ->
            <<Index("deposit"), Index("withdrawal"), Index("datetime"),
              Combine({"tx_class", "summary"}),
              Combine({"peer_bank", "peer_holder", "peer_account"}),
              Index("balance"), Index("memo")>>
      [] source = "toss" ->
            <<Index("amount"), Index("datetime"), Index("tx_type"),
              Combine({"institution", "summary"}),
              Combine({"institution", "account"}),
              Index("balance"), Index("memo")>>
      [] source = "hcard" ->
            <<Index("use_date"), Index("amount"),
              Combine({"card_class", "card_name"}),
              Combine({"merchant", "business_no"}),
              Combine({"approval_no", "installment"})>>
      [] source = "nh" ->
            <<Index("datetime"), Index("deposit"), Index("withdrawal"),
              Index("content"), Combine({"record", "branch"}),
              Index("balance"), Index("memo")>>
      [] source = "shinhan" ->
            <<Index("date"), Index("time"), Index("deposit"), Index("withdrawal"),
              Combine({"summary", "content"}), Combine({"content", "branch"}),
              Index("balance")>>

ColsOf(source, op) ==
    UNION {SourceSteps(source)[k].cols :
             k \in {j \in 1..Len(SourceSteps(source)) : SourceSteps(source)[j].op = op}}
\* columns read with df[c]
IndexedCols(source) == ColsOf(source, "index")
\* columns read only through combine_and_clean_str
CombinedCols(source) == ColsOf(source, "combine") \ IndexedCols(source)
AllCols(source) == IndexedCols(source) \cup CombinedCols(source)

\* the columns the standard fields are made of
AmountCols(source) == AllCols(source) \cap {"amount", "deposit", "withdrawal"}
TimestampCols(source) == AllCols(source) \cap {"datetime", "date", "time", "use_date"}
\* columns that go into 사용내역, 거래상대방 or 메모
TextCols(source) ==
    ColsOf(source, "combine")
        \cup (IF source = "kakao" THEN {"tx_class", "content", "memo"}
              ELSE IF source = "nh" THEN {"content", "memo"}
              ELSE IF source \in {"kbank", "toss"} THEN {"memo"}
              ELSE {})

\* variant: a combined column that is absent raises like df[c]
combine_and_clean_str_strict(missing, cols) ==
    [raised |-> cols \cap missing # {}, substituted |-> {}]

\* lines 48-64: an absent column is replaced by a series of '' (lines 56-57)
combine_and_clean_str(missing, cols) ==
    [raised |-> FALSE, substituted |-> cols \cap missing]

\* the reads of a block against a header that lacks the columns in missing:
\* the first KeyError leaves the block (except Exception), nothing is appended
RECURSIVE run_steps(_, _, _)
run_steps(steps, missing, substituted) ==
    IF steps = <<>> THEN [failed |-> FALSE, substituted |-> substituted]
    ELSE LET st == Head(steps)
             r == IF st.op = "index"
                  THEN [raised |-> st.cols \cap missing # {}, substituted |-> {}]
                  ELSE combine_and_clean_str(missing, st.cols)
         IN IF r.raised THEN [failed |-> TRUE, substituted |-> {}]
            ELSE run_steps(Tail(steps), missing, substituted \cup r.substituted)

\* numeric helpers on cleaner results
IsNeg(r) == ~r.null /\ r.num.neg
IsPos(r) == ~r.null /\ ~r.num.neg /\ (r.num.int # 0 \/ r.num.frac # <<>>)
Abs(r) == [r EXCEPT !.num.neg = FALSE]
fillna0(r) == IF r.null THEN Value(Zero) ELSE r

\* 입금액 and 출금액 of a row: a is the cell of the amount (or deposit)
\* column, b the cell of the withdrawal column
amount_columns(source, a, b) ==
    IF source \in {"kakao", "toss"}
    THEN \* lines 87, 98, 100 and 146, 160, 162
         LET x == clean_amount(a)
         IN [credit |-> IF IsPos(x) THEN x ELSE Value(Zero),
             debit |-> IF IsNeg(x) THEN Abs(x) ELSE Value(Zero)]
    ELSE IF source = "hcard"
    THEN \* lines 184, 192, 194
         [credit |-> Value(Zero), debit |-> fillna0(clean_amount(a))]
    ELSE \* lines 116-117, 128, 130; 215-216, 224, 226; 248-249, 257, 259
         [credit |-> fillna0(clean_amount(a)), debit |-> fillna0(clean_amount(b))]

\* one try block on a one-row table
source_block(source, missing, a, b) ==
    LET r == run_steps(SourceSteps(source), missing, {})
        amt == amount_columns(source, a, b)
    IN IF r.failed
       THEN [failed |-> TRUE, rows |-> 0, substituted |-> {},
             credit |-> Null, debit |-> Null]
       ELSE [failed |-> FALSE, rows |-> 1, substituted |-> r.substituted,
             credit |-> amt.credit, debit |-> amt.debit]

Five == [neg |-> FALSE, int |-> 5, frac |-> <<>>]
\* cells of an amount column: numeric (read_csv parsed the column), empty,
\* or text with a thousands separator or another character
AdaptCells ==
    {NumCell(Value(Five)), NumCell(Value([Five EXCEPT !.neg = TRUE])), NumCell(Null),
     TextCell(<<"5", ",", "0">>), TextCell(<<"-", "5", ",", "0">>),
     TextCell(<<"$", "5">>)}

NoAdaptIn == [source |-> "none", missing |-> {}, a |-> NumCell(Null), b |-> NumCell(Null)]
NoAdaptOut == [failed |-> FALSE, rows |-> 0, substituted |-> {},
               credit |-> Null, debit |-> Null]

\* ---------------------------------------------------------------------
\* Initial values
\* ---------------------------------------------------------------------
PipeIdle ==
    /\ df_original = <<>>
    /\ data_for_ai = <<>>
    /\ i = 0
    /\ result_json_string = NoneText
    /\ df_ai_results_list = <<>>
    /\ df_ai_final = <<>>
    /\ df_final_merged = <<>>
    /\ warned = FALSE
    /\ outputFile = <<>>
    /\ fileWritten = FALSE
    /\ sleeps = <<>>
    /\ calls = <<>>
    /\ parsed_log = <<>>
    /\ sent = <<>>

ClientIdle ==
    /\ script = <<>>
    /\ ret = NoRet

NormIdle ==
    /\ src_idx = 0
    /\ norm_stats = [raw |-> 0, failed |-> 0, read |-> 0, log |-> <<>>]
    /\ list_of_dfs = <<>>
    /\ df_combined = <<>>
    /\ final_df = NoFrame

CleanIdle ==
    /\ clean_in = NoCleanIn
    /\ clean_out = Null
    /\ adapt_in = NoAdaptIn
    /\ adapt_out = NoAdaptOut

HeaderIdle ==
    /\ batch_cols = <<>>
    /\ header = <<>>

\* module import of api_genai: the client exists iff the credential is set
Init ==
    /\ pc = "start"
    /\ GEMINI_CLIENT \in BOOLEAN
    /\ PipeIdle
    /\ ClientIdle
    /\ cpc = "off"
    /\ NormIdle
    /\ npc = "off"
    /\ CleanIdle
    /\ apc = "off"
    /\ HeaderIdle
    /\ hpc = "off"

\* ---------------------------------------------------------------------
\* main.py: run_full_pipeline
\* ---------------------------------------------------------------------
data_length == Len(df_original)
batch_num == i \div MAX_BATCH_SIZE + 1
total_batches == (data_length + MAX_BATCH_SIZE - 1) \div MAX_BATCH_SIZE
\* data_for_ai[i:i + MAX_BATCH_SIZE]
batch == SubSeq(data_for_ai, i + 1, Min(i + MAX_BATCH_SIZE, Len(data_for_ai)))

\* lines 34-52: what run_full_pipeline does with the n transactions that
\* stage 1 returned (n = 0: None or an empty frame); brk is the row whose
\* text holds a line break, 0 if there is none; lead: the first row has
\* no timestamp
StartPipeline(n, brk, lead) ==
    /\ IF n = 0
       THEN /\ pc' = "done"
            /\ UNCHANGED <<df_original, data_for_ai>>
       ELSE /\ df_original' = [k \in 1..n |-> k]
            /\ data_for_ai' = to_csv_lines(df_original', brk, lead)
            /\ pc' = "loop"
    /\ i' = 0
    /\ df_ai_results_list' = <<>>
    /\ UNCHANGED <<GEMINI_CLIENT, result_json_string, df_ai_final, df_final_merged,
                   warned, outputFile, fileWritten, sleeps, calls, parsed_log>>
    /\ UNCHANGED sent

\* lines 31-52: stage 1 and serialization
Integrate ==
    /\ pc = "start"
    /\ \E n \in 0..MaxTx :
          \E brk \in {0, Min(MAX_BATCH_SIZE, n), n} :
             \E lead \in BOOLEAN :
                /\ lead => (brk = 0 /\ n > 0)
                /\ StartPipeline(n, brk, lead)
    /\ UNCHANGED <<clientVars, normVars, cleanVars, headerVars>>

\* lines 54-63: next batch, classify call, fixed 2 s sleep
CallClassify ==
    /\ pc = "loop"
    /\ i < data_length
    /\ GEMINI_CLIENT
    /\ \E o \in ServiceOutcomes(batch_num, Len(batch)) :
          LET r == classify_payments_batch(GEMINI_CLIENT, <<o>>)
          IN /\ script' = <<o>>
             /\ ret' = r
             /\ result_json_string' = r.text
             /\ sleeps' = sleeps \o r.sleeps \o <<POST_CALL_SLEEP_MS>>
             /\ pc' = IF r.raised THEN "crashed" ELSE "parse"
    /\ calls' = Append(calls, batch_num)
    /\ sent' = Append(sent, batch)
    /\ UNCHANGED <<GEMINI_CLIENT, df_original, data_for_ai, i, df_ai_results_list,
                   df_ai_final, df_final_merged, warned, outputFile, fileWritten,
                   parsed_log>>
    /\ UNCHANGED <<cpc, normVars, cleanVars, headerVars>>

\* lines 61, 64-66: no client, the loop is left
NoClientBreak ==
    /\ pc = "loop"
    /\ i < data_length
    /\ ~GEMINI_CLIENT
    /\ pc' = "stage3"
    /\ UNCHANGED <<GEMINI_CLIENT, df_original, data_for_ai, i, result_json_string,
                   df_ai_results_list, df_ai_final, df_final_merged, warned,
                   outputFile, fileWritten, sleeps, calls, parsed_log>>
    /\ UNCHANGED sent
    /\ UNCHANGED <<clientVars, normVars, cleanVars, headerVars>>

\* variant: a response that cannot be used ends the batch loop
ParseResponse_break_on_failure ==
    /\ pc = "parse"
    /\ \E p \in {parse_response(result_json_string)} :
          /\ df_ai_results_list' = append_batch_result(df_ai_results_list, p)
          /\ parsed_log' = Append(parsed_log,
                                  [batch |-> batch_num, branch |-> p.branch,
                                   cleaned |-> p.cleaned, list |-> p.list])
          /\ pc' = IF p.branch = "ok" THEN "loop" ELSE "stage3"
    /\ sleeps' = Append(sleeps, RPM_DELAY_MS)
    /\ i' = i + MAX_BATCH_SIZE
    /\ UNCHANGED <<GEMINI_CLIENT, df_original, data_for_ai, result_json_string,
                   df_ai_final, df_final_merged, warned, outputFile, fileWritten,
                   calls>>
    /\ UNCHANGED sent
    /\ UNCHANGED <<clientVars, normVars, cleanVars, headerVars>>

\* lines 68-104: parse the response, keep a non-empty frame, sleep, next i
ParseResponse ==
    /\ pc = "parse"
    /\ \E p \in {parse_response(result_json_string)} :
          /\ df_ai_results_list' = append_batch_result(df_ai_results_list, p)
          /\ parsed_log' = Append(parsed_log,
                                  [batch |-> batch_num, branch |-> p.branch,
                                   cleaned |-> p.cleaned, list |-> p.list])
    /\ sleeps' = Append(sleeps, RPM_DELAY_MS)
    /\ i' = i + MAX_BATCH_SIZE
    /\ pc' = "loop"
    /\ UNCHANGED <<GEMINI_CLIENT, df_original, data_for_ai, result_json_string,
                   df_ai_final, df_final_merged, warned, outputFile, fileWritten,
                   calls>>
    /\ UNCHANGED sent
    /\ UNCHANGED <<clientVars, normVars, cleanVars, headerVars>>

\* line 54: range exhausted
LoopExit ==
    /\ pc = "loop"
    /\ i >= data_length
    /\ pc' = "stage3"
    /\ UNCHANGED <<GEMINI_CLIENT, df_original, data_for_ai, i, result_json_string,
                   df_ai_results_list, df_ai_final, df_final_merged, warned,
                   outputFile, fileWritten, sleeps, calls, parsed_log>>
    /\ UNCHANGED sent
    /\ UNCHANGED <<clientVars, normVars, cleanVars, headerVars>>

\* lines 110-112: no batch frame at all, return without a file
ReturnNoResults ==
    /\ pc = "stage3"
    /\ df_ai_results_list = <<>>
    /\ pc' = "done"
    /\ UNCHANGED <<GEMINI_CLIENT, df_original, data_for_ai, i, result_json_string,
                   df_ai_results_list, df_ai_final, df_final_merged, warned,
                   outputFile, fileWritten, sleeps, calls, parsed_log>>
    /\ UNCHANGED sent
    /\ UNCHANGED <<clientVars, normVars, cleanVars, headerVars>>

\* variant: a count mismatch ends the run before the file is written
MergeAndSave_stop_on_mismatch ==
    /\ pc = "stage3"
    /\ df_ai_results_list # <<>>
    /\ df_ai_final' = pd_concat_rows(df_ai_results_list)
    /\ warned' = (Len(df_original) # Len(df_ai_final'))
    /\ IF warned'
       THEN UNCHANGED <<df_final_merged, outputFile, fileWritten>>
       ELSE /\ df_final_merged' = pd_concat_cols(df_original, df_ai_final')
            /\ outputFile' = df_final_merged'
            /\ fileWritten' = TRUE
    /\ pc' = "done"
    /\ UNCHANGED <<GEMINI_CLIENT, df_original, data_for_ai, i, result_json_string,
                   df_ai_results_list, sleeps, calls, parsed_log>>
    /\ UNCHANGED sent
    /\ UNCHANGED <<clientVars, normVars, cleanVars, headerVars>>

\* variant: the warning test of line 121 only looks for missing results
MergeAndSave_warn_if_fewer ==
    /\ pc = "stage3"
    /\ df_ai_results_list # <<>>
    /\ df_ai_final' = pd_concat_rows(df_ai_results_list)
    /\ warned' = (Len(df_original) > Len(df_ai_final'))
    /\ df_final_merged' = pd_concat_cols(df_original, df_ai_final')
    /\ outputFile' = df_final_merged'
    /\ fileWritten' = TRUE
    /\ pc' = "done"
    /\ UNCHANGED <<GEMINI_CLIENT, df_original, data_for_ai, i, result_json_string,
                   df_ai_results_list, sleeps, calls, parsed_log>>
    /\ UNCHANGED sent
    /\ UNCHANGED <<clientVars, normVars, cleanVars, headerVars>>

\* lines 114-148: concatenate, warn on a count mismatch, merge, write
MergeAndSave ==
    /\ pc = "stage3"
    /\ df_ai_results_list # <<>>
    /\ df_ai_final' = pd_concat_rows(df_ai_results_list)
    /\ warned' = (Len(df_original) # Len(df_ai_final'))
    /\ df_final_merged' = pd_concat_cols(df_original, df_ai_final')
    /\ outputFile' = df_final_merged'
    /\ fileWritten' = TRUE
    /\ pc' = "done"
    /\ UNCHANGED <<GEMINI_CLIENT, df_original, data_for_ai, i, result_json_string,
                   df_ai_results_list, sleeps, calls, parsed_log>>
    /\ UNCHANGED sent
    /\ UNCHANGED <<clientVars, normVars, cleanVars, headerVars>>

Next ==
    \/ Integrate
    \/ CallClassify
    \/ NoClientBreak
    \/ ParseResponse
    \/ LoopExit
    \/ ReturnNoResults
    \/ MergeAndSave

Spec == Init /\ [][Next]_vars

\* ---------------------------------------------------------------------
\* One classify call against a scripted service
\* ---------------------------------------------------------------------
\* outcomes of one attempt for a one-line batch
ScriptOutcomes ==
    {Outcome("unavailable", NoneText), Outcome("fatal", NoneText),
     Outcome("ok", Text(ArrayChars(1, 1))),
     Outcome("ok", Text(<<PROSE>> \o ArrayChars(1, 1) \o <<PROSE>>)),
     Outcome("ok", Text(<<PROSE>>))}

Scripts == UNION {[1..m -> ScriptOutcomes] : m \in 1..MaxScript}

InitClient ==
    /\ pc = "off"
    /\ GEMINI_CLIENT \in BOOLEAN
    /\ PipeIdle
    /\ ClientIdle
    /\ cpc = "idle"
    /\ NormIdle
    /\ npc = "off"
    /\ CleanIdle
    /\ apc = "off"
    /\ HeaderIdle
    /\ hpc = "off"

\* api_genai.py lines 163-194, the whole call
ClassifyCall ==
    /\ cpc = "idle"
    /\ \E s \in Scripts :
          /\ script' = s
          /\ ret' = classify_payments_batch(GEMINI_CLIENT, s)
    /\ cpc' = IF ret'.raised THEN "raised" ELSE "returned"
    /\ UNCHANGED <<pipeVars, normVars, cleanVars, headerVars>>

NextClient == ClassifyCall

SpecClient == InitClient /\ [][NextClient]_vars

\* ---------------------------------------------------------------------
\* process_all_files over small raw tables
\* ---------------------------------------------------------------------
InitNorm ==
    /\ pc = "off"
    /\ GEMINI_CLIENT = FALSE
    /\ PipeIdle
    /\ ClientIdle
    /\ cpc = "off"
    /\ NormIdle
    /\ npc = "sources"
    /\ CleanIdle
    /\ apc = "off"
    /\ HeaderIdle
    /\ hpc = "off"

\* variant: one try block around all sources, a failure skips the rest
ProcessSource_abort_on_failure ==
    /\ npc = "sources"
    /\ src_idx < Len(Sources)
    /\ LET source == Sources[src_idx + 1]
       IN \E status \in {"missing", "nocol", "ok"} :
            \E rows \in RowsUpTo(MaxRawRows - norm_stats.read) :
               /\ status = "missing" => rows = <<>>
               /\ IF status = "ok"
                  THEN /\ list_of_dfs' = Append(list_of_dfs,
                                                standard_frame(source, RawTable(status, rows)))
                       /\ norm_stats' = [raw |-> norm_stats.raw + Len(rows),
                                         failed |-> norm_stats.failed
                                                    + CountFailed(source, rows),
                                         read |-> norm_stats.read + Len(rows),
                                         log |-> Append(norm_stats.log,
                                                        [ok |-> TRUE, n |-> Len(rows)])]
                       /\ src_idx' = src_idx + 1
                  ELSE /\ UNCHANGED list_of_dfs
                       /\ norm_stats' = [norm_stats EXCEPT
                                           !.read = @ + Len(rows),
                                           !.log = Append(@, [ok |-> FALSE,
                                                              n |-> Len(rows)])]
                       /\ src_idx' = Len(Sources)
    /\ UNCHANGED <<npc, df_combined, final_df>>
    /\ UNCHANGED <<pipeVars, clientVars, cleanVars, headerVars>>

\* one try block (lines 84-110, 113-140, ...): read the file, build the
\* standard frame, append it; any exception skips the source.
\*   missing: load_file raises (no such file, unreadable table)
\*   nocol:   the table is read, then a directly indexed column is absent
\*   ok:      the block runs through
ProcessSource ==
    /\ npc = "sources"
    /\ src_idx < Len(Sources)
    /\ LET source == Sources[src_idx + 1]
       IN \E status \in {"missing", "nocol", "ok"} :
            \E rows \in RowsUpTo(MaxRawRows - norm_stats.read) :
               /\ status = "missing" => rows = <<>>
               /\ IF status = "ok"
                  THEN /\ list_of_dfs' = Append(list_of_dfs,
                                                standard_frame(source, RawTable(status, rows)))
                       /\ norm_stats' = [raw |-> norm_stats.raw + Len(rows),
                                         failed |-> norm_stats.failed
                                                    + CountFailed(source, rows),
                                         read |-> norm_stats.read + Len(rows),
                                         log |-> Append(norm_stats.log,
                                                        [ok |-> TRUE, n |-> Len(rows)])]
                       /\ src_idx' = src_idx + 1
                  ELSE /\ UNCHANGED list_of_dfs
                       /\ norm_stats' = [norm_stats EXCEPT
                                           !.read = @ + Len(rows),
                                           !.log = Append(@, [ok |-> FALSE,
                                                              n |-> Len(rows)])]
                       /\ src_idx' = src_idx + 1
    /\ UNCHANGED <<npc, df_combined, final_df>>
    /\ UNCHANGED <<pipeVars, clientVars, cleanVars, headerVars>>

\* lines 272-281: concatenate the frames
CombineFrames ==
    /\ npc = "sources"
    /\ src_idx = Len(Sources)
    /\ df_combined' = pd_concat_rows(list_of_dfs)
    /\ npc' = "combined"
    /\ UNCHANGED <<src_idx, norm_stats, list_of_dfs, final_df>>
    /\ UNCHANGED <<pipeVars, clientVars, cleanVars, headerVars>>

\* lines 295-326: empty check, sort, return
RunIntegration ==
    /\ npc = "combined"
    /\ \E sorted \in sort_values(df_combined) :
          final_df' = integration_result(df_combined, sorted)
    /\ npc' = "returned"
    /\ UNCHANGED <<src_idx, norm_stats, list_of_dfs, df_combined>>
    /\ UNCHANGED <<pipeVars, clientVars, cleanVars, headerVars>>

\* main.py lines 34-52: run_full_pipeline receives the returned frame
ReceiveIntegration ==
    /\ npc = "returned"
    /\ pc = "off"
    /\ StartPipeline(IF final_df.isNone THEN 0 ELSE Len(final_df.rows), 0,
                     ~final_df.isNone /\ final_df.rows[1].ts = NaT)
    /\ UNCHANGED <<clientVars, normVars, cleanVars, headerVars>>

NextNorm == ProcessSource \/ CombineFrames \/ RunIntegration \/ ReceiveIntegration

SpecNorm == InitNorm /\ [][NextNorm]_vars

\* ---------------------------------------------------------------------
\* The amount cleaners and one source block on small inputs
\* ---------------------------------------------------------------------
InitClean ==
    /\ pc = "off"
    /\ GEMINI_CLIENT = FALSE
    /\ PipeIdle
    /\ ClientIdle
    /\ cpc = "off"
    /\ NormIdle
    /\ npc = "off"
    /\ CleanIdle
    /\ apc = "idle"
    /\ HeaderIdle
    /\ hpc = "off"

\* one call of a clean_amount on a text cell
CleanAmount ==
    /\ apc = "idle"
    /\ \E ver \in CleanerVersions :
         \E t \in AmountTexts :
            /\ clean_in' = [ver |-> ver, cell |-> TextCell(t)]
            /\ clean_out' = run_cleaner(ver, TextCell(t))
    /\ apc' = "cleaned"
    /\ UNCHANGED <<adapt_in, adapt_out>>
    /\ UNCHANGED <<pipeVars, clientVars, normVars, headerVars>>

\* one try block of process_all_files on a one-row table
AdaptRow ==
    /\ apc = "idle"
    /\ \E source \in {Sources[k] : k \in 1..Len(Sources)} :
         \E missing \in {S \in SUBSET AllCols(source) : Cardinality(S) <= MaxMissing} :
            \E a, b \in AdaptCells :
               /\ adapt_in' = [source |-> source, missing |-> missing, a |-> a, b |-> b]
               /\ adapt_out' = source_block(source, missing, a, b)
    /\ apc' = "adapted"
    /\ UNCHANGED <<clean_in, clean_out>>
    /\ UNCHANGED <<pipeVars, clientVars, normVars, headerVars>>

NextClean == CleanAmount \/ AdaptRow

SpecClean == InitClean /\ [][NextClean]_vars

\* ---------------------------------------------------------------------
\* The header of the final file for small sets of response keys
\* ---------------------------------------------------------------------
InitHeader ==
    /\ pc = "off"
    /\ GEMINI_CLIENT = FALSE
    /\ PipeIdle
    /\ ClientIdle
    /\ cpc = "off"
    /\ NormIdle
    /\ npc = "off"
    /\ CleanIdle
    /\ apc = "off"
    /\ HeaderIdle
    /\ hpc = "frames"

\* lines 79-92 for one batch whose response was decoded
CollectFrame ==
    /\ hpc = "frames"
    /\ Len(batch_cols) < MaxFrames
    /\ \E cols \in ResponseColumns :
          batch_cols' = append_batch_columns(batch_cols, cols)
    /\ UNCHANGED <<hpc, header>>
    /\ UNCHANGED <<pipeVars, clientVars, normVars, cleanVars>>

\* lines 110-146: concatenate the frames, order the columns, write
WriteHeader ==
    /\ hpc = "frames"
    /\ batch_cols # <<>>
    /\ header' = final_columns_order(pd_concat_columns(batch_cols))
    /\ hpc' = "written"
    /\ UNCHANGED batch_cols
    /\ UNCHANGED <<pipeVars, clientVars, normVars, cleanVars>>

NextHeader == CollectFrame \/ WriteHeader

SpecHeader == InitHeader /\ [][NextHeader]_vars

\* =====================================================================
\* Properties
\* =====================================================================
Last(q) == q[Len(q)]
\* number of classification results collected so far
ResultCount == Len(pd_concat_rows(df_ai_results_list))

\* C1: when the result count R and the transaction count N differ, the
\* merge has exactly min(R, N) rows; no merged row lies beyond min(R, N).
C1_MergeHasMinRows ==
    fileWritten =>
        Len(df_final_merged) = Min(Len(df_ai_final), Len(df_original))

\* C2: for the service outcomes (unavailable, unavailable, success) one
\* classify call makes three attempts with two backoff sleeps in between
\* and returns the third attempt's text; it never makes a fifth attempt.
C2_RetriesTransientFailures ==
    (cpc = "returned" /\ GEMINI_CLIENT) =>
        /\ ret.attempts <= 4
        /\ (/\ Len(script) >= 3
            /\ script[1].kind = "unavailable"
            /\ script[2].kind = "unavailable"
            /\ script[3].kind = "ok")
           => /\ ret.attempts = 3
              /\ ret.backoffs = 2
              /\ ret.text = script[3].text

\* C3 (as stated): a run that got at least one transaction ends with the
\* final file written, whatever the batches returned.
C3_AlwaysWritesFile ==
    (pc = "done" /\ Len(df_original) >= 1) => fileWritten

\* batches of the loop that are not finished yet
BatchesLeft ==
    IF i >= data_length THEN 0
    ELSE (data_length - i + MAX_BATCH_SIZE - 1) \div MAX_BATCH_SIZE

\* a measure of the work left in run_full_pipeline
Rank ==
    IF pc = "start" THEN 2 * ((MaxTx + MAX_BATCH_SIZE - 1) \div MAX_BATCH_SIZE) + 3
    ELSE IF pc = "loop" THEN 2 * BatchesLeft + 2
    ELSE IF pc = "parse" THEN 2 * BatchesLeft + 1
    ELSE IF pc = "stage3" THEN 1
    ELSE 0

\* the run is one sequential thread that takes whatever step is enabled:
\* it ends when every step lowers the measure and a step is enabled in
\* every state but the final one
RunTerminates ==
    /\ [][Rank' < Rank]_vars
    /\ [](pc # "done" => ENABLED Next)

\* C3 (amended): once at least one batch has contributed a non-empty
\* result list, the run goes on to its end and has then written the
\* final file, whatever the other batches return.
C3_WritesFileOnceAnyResult ==
    /\ RunTerminates
    /\ [][df_ai_results_list # <<>> => df_ai_results_list' # <<>>]_vars
    /\ []((pc = "done" /\ Len(df_original) >= 1 /\ df_ai_results_list # <<>>)
             => fileWritten)

C3_Witness ==
    /\ fileWritten
    /\ \E k \in 1..Len(parsed_log) : parsed_log[k].branch # "ok"
    /\ \E k \in 1..Len(parsed_log) : parsed_log[k].list = <<>>

\* C4: a raw row is in the normalized output iff its timestamp parsed: no
\* output row has a null timestamp, and the output has as many rows as
\* were read minus those whose timestamp did not parse.
C4_UnparsedRowsDropped ==
    npc = "combined" =>
        /\ \A k \in 1..Len(df_combined) : df_combined[k].ts # NaT
        /\ Len(df_combined) = norm_stats.raw - norm_stats.failed

\* the batch just answered is a classification failure: service error,
\* no bracketed array in the text, or an array that does not decode
BatchFailed ==
    \/ script[1].kind # "ok"
    \/ parse_response(result_json_string).branch # "ok"

\* C5: a failed batch never aborts the run: classify is invoked for every
\* batch, in increasing batch order, and the run reaches the merge stage.
C5_FailedBatchNeverAborts ==
    /\ [](pc # "crashed")
    /\ [](calls = [k \in 1..Len(calls) |-> k])
    /\ [][(pc = "parse" /\ BatchFailed)
             => (pc' = "loop" /\ i' = i + MAX_BATCH_SIZE)]_vars
    /\ [][(pc # "stage3" /\ pc' = "stage3" /\ GEMINI_CLIENT)
             => Len(calls) = total_batches]_vars
    /\ [][(pc \in {"loop", "parse"}) => Rank' < Rank]_vars
    /\ [](pc \in {"loop", "parse"} => ENABLED Next)

C5_Witness ==
    /\ pc = "stage3"
    /\ Len(calls) >= 2
    /\ parsed_log[1].branch # "ok"

\* C6: classify never hands a service failure to its caller: a failure
\* that is not transient-unavailable gets no further attempt, and every
\* call that ends in a failure returns the text "[]".
C6_FailureReturnsEmptyArray ==
    /\ cpc # "raised"
    /\ pc # "crashed"
    /\ (cpc = "returned" /\ GEMINI_CLIENT) =>
          /\ script[1].kind = "fatal" => ret.attempts = 1
          /\ script[ret.attempts].kind # "ok" => ret.text = Text(<<LB, RB>>)

C6_Witness ==
    /\ cpc = "returned"
    /\ GEMINI_CLIENT
    /\ script[1].kind = "fatal"
    /\ ret.text = Text(<<LB, RB>>)

RECURSIVE LogOffset(_)
\* number of results decoded for the batches before the k-th processed one
LogOffset(k) ==
    IF k <= 1 THEN 0 ELSE LogOffset(k - 1) + Len(parsed_log[k - 1].list)

\* C7: the flat result sequence is the per-batch decoded lists one after
\* the other in batch order, each in its own order, and the merge puts
\* flat result i next to transaction i.
C7_PositionalConcatAndMerge ==
    /\ \A k \in 1..Len(parsed_log) : parsed_log[k].batch = k
    /\ LET flat == pd_concat_rows(df_ai_results_list)
       IN /\ Len(flat) = LogOffset(Len(parsed_log) + 1)
          /\ \A k \in 1..Len(parsed_log) :
                \A j \in 1..Len(parsed_log[k].list) :
                   flat[LogOffset(k) + j] = parsed_log[k].list[j]
    /\ fileWritten =>
          /\ Len(df_ai_final) = LogOffset(Len(parsed_log) + 1)
          /\ \A k \in 1..Len(parsed_log) :
                \A j \in 1..Len(parsed_log[k].list) :
                   df_ai_final[LogOffset(k) + j] = parsed_log[k].list[j]
          /\ \A n \in 1..Len(df_final_merged) :
                /\ n <= Len(df_original) => df_final_merged[n].tx = df_original[n]
                /\ n <= Len(df_ai_final) => df_final_merged[n].ai = df_ai_final[n]

C7_Witness ==
    /\ fileWritten
    /\ Len(df_ai_results_list) >= 2
    /\ Len(df_ai_results_list[1]) >= 2
    /\ Len(df_final_merged) >= 3

\* C8: the parser takes the text from the first '[' to the last ']' and
\* decodes it; an array wrapped in prose decodes to that array, a text
\* without a bracket pair is a parse failure.
C8_FirstToLastBracket ==
    (pc = "loop" /\ parsed_log # <<>> /\ ~result_json_string.isNone) =>
        LET s == result_json_string.chars
            e == Last(parsed_log)
            lbs == {a \in 1..Len(s) : s[a] = LB}
            rbs == {z \in 1..Len(s) : s[z] = RB}
        IN /\ IF lbs # {} /\ rbs # {} /\ SetMin(lbs) < SetMax(rbs)
              THEN /\ e.branch \in {"ok", "decode_error"}
                   /\ e.cleaned = SubSeq(s, SetMin(lbs), SetMax(rbs))
              ELSE e.branch = "no_match"
           /\ e.branch = "ok" =>
                 e.list = SelectSeq(e.cleaned, LAMBDA t : t.k = "o")
           /\ s = <<PROSE, LB, Obj(e.batch, 1), RB, PROSE>> =>
                 (e.branch = "ok" /\ e.list = <<Obj(e.batch, 1)>>)

C8_Witness ==
    /\ pc = "loop"
    /\ parsed_log # <<>>
    /\ result_json_string = Text(<<PROSE, LB, Obj(1, 1), RB, PROSE>>)
    /\ Last(parsed_log).list = <<Obj(1, 1)>>

\* the text handed to the parser has no bracketed substring, does not
\* decode, or is the empty array
UnusableResponse ==
    \/ result_json_string.isNone
    \/ ~re_search(result_json_string.chars).found
    \/ ~json_decodable(match_group(result_json_string.chars,
                                   re_search(result_json_string.chars)))
    \/ result_json_string = Text(<<LB, RB>>)

\* C9: a batch whose response is unusable contributes nothing: the
\* accumulated result list is the same after that batch as before it.
C9_UnusableBatchLeavesResults ==
    [][(pc = "parse" /\ UnusableResponse)
          => df_ai_results_list' = df_ai_results_list]_vars

C9_Witness ==
    /\ pc = "loop"
    /\ Len(parsed_log) = 2
    /\ parsed_log[1].list # <<>>
    /\ parsed_log[2].branch = "decode_error"
    /\ df_ai_results_list = <<parsed_log[1].list>>

\* C10 (as stated): the warning is printed exactly when the result count
\* differs from the transaction count, and then the file is written.
C10_WarnsIffCountsDiffer ==
    (pc = "done" /\ Len(df_original) >= 1) =>
        /\ warned <=> (ResultCount # Len(df_original))
        /\ warned => fileWritten

\* C10 (amended): the warning is printed exactly when some batch
\* contributed results and the result count differs from the transaction
\* count, and then the file is written.
C10_WarnsIffResultsAndCountsDiffer ==
    (pc = "done" /\ Len(df_original) >= 1) =>
        /\ warned <=> (df_ai_results_list # <<>> /\ ResultCount # Len(df_original))
        /\ warned => fileWritten

C10_Witness ==
    /\ pc = "done"
    /\ warned
    /\ fileWritten
    /\ Len(df_ai_final) > Len(df_original)

\* position of a returned row in the collected (concatenated) frame
CollectPos(r) == CHOOSE k \in 1..Len(df_combined) : df_combined[k] = r

\* C11: the returned sequence is ordered by timestamp descending, and rows
\* with equal timestamps keep the order in which they were collected
\* (source enumeration order, then row order within the source).
C11_SortedDescendingStable ==
    (npc = "returned" /\ ~final_df.isNone) =>
        \A p, q \in 1..Len(final_df.rows) :
            p < q =>
              LET a == final_df.rows[p]
                  b == final_df.rows[q]
              IN /\ (a.ts # NaT /\ b.ts # NaT) => a.ts >= b.ts
                 /\ a.ts = b.ts => CollectPos(a) < CollectPos(b)

\* C12: in every written output the row at (1-based) position p carries
\* the sequence number p, none missing or null, whatever the transaction
\* count and the result count are.
C12_SequenceNumbersAreRowPositions ==
    fileWritten =>
        \A p \in 1..Len(outputFile) : outputFile[p].seq_no = p

\* C13: the batches handed to the classifier are consecutive slices of the
\* serialized lines: every batch has 1..MAX_BATCH_SIZE lines, every batch
\* but the last exactly MAX_BATCH_SIZE, and once the loop has run through,
\* the batches one after the other are exactly the serialized lines.
C13_BatchesTileSerializedLines ==
    /\ \A k \in 1..Len(sent) :
          /\ Len(sent[k]) \in 1..MAX_BATCH_SIZE
          /\ k < Len(sent) => Len(sent[k]) = MAX_BATCH_SIZE
    /\ (GEMINI_CLIENT /\ pc \in {"stage3", "done"}) =>
          pd_concat_rows(sent) = data_for_ai

\* rows of the combined frame that come from the s-th source
RowsOf(s) == {k \in 1..Len(df_combined) : df_combined[k].src = Sources[s]}

NoData == \A s \in 1..Len(norm_stats.log) :
              ~norm_stats.log[s].ok \/ norm_stats.log[s].n = 0

\* C15: when every source fails or yields no rows, normalization returns
\* the no-data signal (None), never an empty frame as a normal result, and
\* run_full_pipeline stops without any classification call.
C15_NoDataHaltsPipeline ==
    npc = "returned" =>
        /\ NoData <=> final_df.isNone
        /\ ~final_df.isNone => final_df.rows # <<>>
        /\ NoData => (pc \in {"off", "done"} /\ calls = <<>> /\ sent = <<>>)

\* one source failed, another was read without rows, and the run has halted
C15_Witness ==
    /\ npc = "returned"
    /\ pc = "done"
    /\ final_df.isNone
    /\ \E s, t \in 1..Len(Sources) :
          ~norm_stats.log[s].ok /\ norm_stats.log[t].ok

\* what is left of a text when every character that is not a digit, a
\* decimal point or a leading sign is taken out
ClaimStrip(t) ==
    LET s == Keep(t, DigitChars \cup {".", "-", "+"})
    IN IF s = <<>> THEN <<>>
       ELSE <<s[1]>> \o Keep(Tail(s), DigitChars \cup {"."})

\* C16: the amount cleaner takes out every character that is not a digit,
\* a decimal point or a leading sign and returns the number the rest
\* denotes ("1,234" with the currency sign gives 1234, "-500" gives -500);
\* a text that is empty after stripping gives null, never zero.
C16_CleanerStripsAndParses ==
    apc = "cleaned" =>
        LET t == ClaimStrip(clean_in.cell.chars)
        IN IF t = <<>> THEN clean_out = Null
           ELSE IsNumber(t) => clean_out = Value(parse_number(t))

\* C17: the amount cleaner never raises; a text that is not a number after
\* stripping (two decimal points, a lone sign) gives null.
C17_CleanerNeverRaises ==
    apc = "cleaned" =>
        /\ ~clean_out.raised
        /\ ~IsNumber(ClaimStrip(clean_in.cell.chars)) => clean_out = Null

\* C18: every row a source block produces has credit >= 0 and debit >= 0,
\* whatever sign the raw amount cells carry; card rows have credit 0.
C18_AmountsNonNegative ==
    (apc = "adapted" /\ ~adapt_out.failed) =>
        /\ ~adapt_out.credit.null /\ ~IsNeg(adapt_out.credit)
        /\ ~adapt_out.debit.null /\ ~IsNeg(adapt_out.debit)
        /\ adapt_in.source = "hcard" => adapt_out.credit = Value(Zero)

\* the columns the statement calls required
RequiredCols(source) ==
    AmountCols(source) \cup TimestampCols(source) \cup TextCols(source)

\* C19 (as stated): a source block fails and contributes no rows whenever
\* an amount column, a timestamp column or a column that goes into the
\* description, counterparty or memo is absent; no absent column is ever
\* replaced by empty values.
C19_MissingRequiredColumnFails ==
    (apc = "adapted" /\ adapt_in.missing \cap RequiredCols(adapt_in.source) # {}) =>
        /\ adapt_out.failed
        /\ adapt_out.rows = 0
        /\ adapt_out.substituted = {}

\* C19 (amended): a source block fails and contributes no rows exactly when
\* a column it reads with df[name] is absent, which covers every amount and
\* timestamp column; an absent column that is only combined through
\* combine_and_clean_str is replaced by empty text and the row is kept.
C19_MissingIndexedColumnFails ==
    apc = "adapted" =>
        LET m == adapt_in.missing
            s == adapt_in.source
        IN /\ AmountCols(s) \cup TimestampCols(s) \subseteq IndexedCols(s)
           /\ adapt_out.failed <=> m \cap IndexedCols(s) # {}
           /\ adapt_out.failed => adapt_out.rows = 0
           /\ ~adapt_out.failed =>
                 /\ adapt_out.rows = 1
                 /\ adapt_out.substituted = m \cap CombinedCols(s)

\* a block ran on a header that lacks a combined column
C19_Witness ==
    /\ apc = "adapted"
    /\ adapt_in.missing \cap CombinedCols(adapt_in.source) # {}
    /\ ~adapt_out.failed
    /\ adapt_out.rows = 1
    /\ adapt_out.substituted # {}

\* C20: after the attempts 1..k+1 of one call all failed as unavailable
\* (k = 0, 1, 2), the client sleeps for a time in [2^k, 2^k + 1) seconds
\* and only then makes attempt k+2.
C20_BackoffBeforeRetry ==
    (cpc = "returned" /\ GEMINI_CLIENT) =>
        \A k \in 0..2 :
            (/\ Len(script) >= k + 2
             /\ \A j \in 1..(k + 1) : script[j].kind = "unavailable")
            => /\ ret.backoffs >= k + 1
               /\ Len(ret.sleeps) >= k + 1
               /\ ret.sleeps[k + 1] \in (2^k * 1000)..(2^k * 1000 + 999)
               /\ ret.attempts >= k + 2

\* C21: a classify call whose service call succeeded sleeps the fixed
\* inter-call delay exactly once before it returns the response text; a
\* call whose service call failed, or that has no client, returns without
\* any sleep.
C21_DelayAfterSuccessOnly ==
    cpc = "returned" =>
        IF GEMINI_CLIENT /\ script[1].kind = "ok"
        THEN /\ ret.sleeps = <<RPM_DELAY_MS>>
             /\ ret.text = script[1].text
        ELSE ret.sleeps = <<>>

\* a successful call has returned after its one delay
C21_Witness ==
    /\ cpc = "returned"
    /\ GEMINI_CLIENT
    /\ script[1].kind = "ok"
    /\ ret.sleeps = <<RPM_DELAY_MS>>

\* C22: whenever the final file is written its header is the sequence
\* number column, the nine transaction columns and the four classification
\* columns (direction, primary category, secondary category, rationale),
\* in this order, whichever keys the decoded responses carried.
C22_HeaderIsCanonical ==
    hpc = "written" =>
        header = <<"seq_no">> \o FINAL_COLUMNS
                    \o SubSeq(AI_RESULT_COLUMNS, 2, Len(AI_RESULT_COLUMNS))

\* batches that hold a line of transaction t
BatchesOf(t) ==
    {k \in 1..Len(sent) : \E j \in 1..Len(sent[k]) : sent[k][j].tx = t}

\* C24: serialization gives one line per transaction, line i rendering
\* all nine fields of transaction i, so there are as many lines as
\* transactions, and a run through the loop sends every transaction in
\* exactly one batch; whatever the fields hold (empty first or last
\* field, line breaks).
C24_OneLinePerTransaction ==
    /\ Len(data_for_ai) = Len(df_original)
    /\ \A j \in 1..Len(data_for_ai) :
          data_for_ai[j] = [tx |-> df_original[j], part |-> 1, cut |-> FALSE]
    /\ (GEMINI_CLIENT /\ pc \in {"stage3", "done"}) =>
          \A t \in 1..Len(df_original) : Cardinality(BatchesOf(df_original[t])) = 1

\* C23: in the written file the classification next to the transaction at
\* 0-based index i is a result the service returned for batch
\* floor(i / MAX_BATCH_SIZE), at position i mod MAX_BATCH_SIZE of that
\* batch's array, whatever the earlier batches returned.
C23_ClassificationFromOwnBatch ==
    fileWritten =>
        \A n \in 1..Min(Len(outputFile), Len(df_original)) :
            LET a == outputFile[n].ai
            IN a # NaN_ai =>
                 /\ a.b = ((n - 1) \div MAX_BATCH_SIZE) + 1
                 /\ a.j = ((n - 1) % MAX_BATCH_SIZE) + 1

====
